---- MODULE Spec2Model ----
(***************************************************************************)
(* State-machine model of the nc-gui components of this repository:        *)
(*   - the column formula editor (cursor-context scanning, suggestion      *)
(*     ranking, the formula_raw validator),                                *)
(*   - the base collaborator table (project/AccessSettings.vue),           *)
(*   - the workspace collaborator table.                                   *)
(* Text is a sequence of one-character strings; indices into text are      *)
(* 0-based, as in the source (Char(text, i) is text[i] of the source).     *)
(***************************************************************************)
EXTENDS Integers, Sequences, FiniteSets, TLC

(***************************************************************************)
(* Bounds of the model.                                                    *)
(***************************************************************************)
\* longest formula text typed in the editor specification
MaxTextLen == 3
\* longest formula text typed in the function-scan specification
MaxScanLen == 6
\* longest formula handed to the validator
MaxFormulaLen == 3
\* validations run in the validator specification
MaxValidations == 2

VARIABLES
  \* ---- formula editor ----
  text,               \* editor.getModel().getValue()
  offset,             \* model.getOffsetAt(editor.getPosition())
  suggestion,         \* suggestion.value
  autocomplete,       \* autocomplete.value
  priority,           \* priority.value
  selected,           \* selected.value
  wordToComplete,     \* wordToComplete.value
  showFunctionList,   \* showFunctionList.value
  lastFunction,       \* result of findEnclosingFunction in the cursor handler
  suggestionPreviewed,\* suggestionPreviewed.value
  debPending,         \* a debounced handleInput call is scheduled
  lastEvent,          \* which handler ran last: "none", "cursor", "input"
  \* ---- formula_raw validator ----
  vFormula,           \* the formula handed to the validator
  vSdk,               \* what validateFormulaAndExtractTreeWithType did
  vSdkCalled,         \* the validator called the SDK
  vResult,            \* the validator's promise: accepted, or rejected with a message
  vCount              \* validations run

edVars == <<text, offset, suggestion, autocomplete, priority, selected,
            wordToComplete, showFunctionList, lastFunction,
            suggestionPreviewed, debPending, lastEvent>>

valVars == <<vFormula, vSdk, vSdkCalled, vResult, vCount>>


(***************************************************************************)
(* Characters.                                                             *)
(***************************************************************************)
DQ == "\""
SQ == "'"
BS == "\\"
NL == "\n"

\* \w of the regular expressions, restricted to the letters that are typed
WordChars == {"f", "g", "a"}
\* \s of the regular expressions
SpaceChars == {" ", NL, "\t"}

IsWord(c) == c \in WordChars
IsSpace(c) == c \in SpaceChars

Char(t, i) == t[i + 1]

\* text.substring(from, to)
Substring(t, from, to) ==
  IF to <= from THEN << >> ELSE SubSeq(t, from + 1, to)

\* the number of occurrences of c in t: (t.match(/c/g) || []).length
RECURSIVE CountChar(_, _)
CountChar(t, c) ==
  IF t = << >> THEN 0
  ELSE (IF Head(t) = c THEN 1 ELSE 0) + CountChar(Tail(t), c)

(***************************************************************************)
(* isCursorInsideString: scans text[0 .. offset) tracking single and       *)
(* double quotes; a backslash skips the character after it wherever it     *)
(* stands.                                                                 *)
(***************************************************************************)
RECURSIVE InsideStringScan(_, _, _, _, _, _)
InsideStringScan(t, off, i, inS, inD, esc) ==
  IF i >= off \/ i >= Len(t) THEN inD \/ inS
  ELSE LET char == Char(t, i) IN
    IF esc THEN InsideStringScan(t, off, i + 1, inS, inD, FALSE)
    ELSE IF char = BS THEN InsideStringScan(t, off, i + 1, inS, inD, TRUE)
    ELSE IF char = SQ /\ ~inD THEN InsideStringScan(t, off, i + 1, ~inS, inD, FALSE)
    ELSE IF char = DQ /\ ~inS THEN InsideStringScan(t, off, i + 1, inS, ~inD, FALSE)
    ELSE InsideStringScan(t, off, i + 1, inS, inD, FALSE)

\* a scanner that tracks double quotes only
isCursorInsideString_DoubleOnly(t, off) ==
  InsideStringScan(SelectSeq(Substring(t, 0, off), LAMBDA c : c # SQ), off,
                   0, FALSE, FALSE, FALSE)

isCursorInsideString(t, off) == InsideStringScan(t, off, 0, FALSE, FALSE, FALSE)

(***************************************************************************)
(* The cursor's line: Monaco positions are (lineNumber, column); the line  *)
(* of the cursor starts after the last line break before the offset.       *)
(***************************************************************************)
RECURSIVE LineStart(_, _)
LineStart(t, off) ==
  IF off = 0 THEN 0
  ELSE IF Char(t, off - 1) = NL THEN off
  ELSE LineStart(t, off - 1)

RECURSIVE LineEnd(_, _)
LineEnd(t, off) ==
  IF off >= Len(t) THEN Len(t)
  ELSE IF Char(t, off) = NL THEN off
  ELSE LineEnd(t, off + 1)

\* model.getLineContent(position.lineNumber)
LineContent(t, off) == Substring(t, LineStart(t, off), LineEnd(t, off))

\* counting over the whole text before the cursor, not over its line
isCursorBetweenParenthesis_WholeText(t, off) ==
  CountChar(Substring(t, 0, off), "(") > CountChar(Substring(t, 0, off), ")")

\* isCursorBetweenParenthesis
isCursorBetweenParenthesis(t, off) ==
  LET line == LineContent(t, off)
      cursorLine == Substring(line, 0, off - LineStart(t, off))
      openParenthesis == CountChar(cursorLine, "(")
      closeParenthesis == CountChar(cursorLine, ")")
  IN IF line = << >> THEN FALSE
     ELSE openParenthesis > closeParenthesis

(***************************************************************************)
(* getCurrentKeyword: the word at the cursor (Monaco's getWordAtPosition:  *)
(* the run of word characters that contains or touches the position), or   *)
(* the empty text when there is none.                                      *)
(***************************************************************************)
RECURSIVE WordLeft(_, _, _)
WordLeft(t, lo, i) ==
  IF i > lo /\ IsWord(Char(t, i - 1)) THEN WordLeft(t, lo, i - 1) ELSE i

RECURSIVE WordRight(_, _, _)
WordRight(t, hi, i) ==
  IF i < hi /\ IsWord(Char(t, i)) THEN WordRight(t, hi, i + 1) ELSE i

\* getCurrentKeyword() ?? '': the empty text stands for "no word"
getCurrentKeyword(t, off) ==
  LET l == WordLeft(t, LineStart(t, off), off)
      r == WordRight(t, LineEnd(t, off), off)
  IN Substring(t, l, r)

(***************************************************************************)
(* The suggestion list: functions, columns and operators.                  *)
(***************************************************************************)
suggestionsList ==
  << [text |-> <<"f", "(", ")">>, type |-> "function"],
     [text |-> <<"g", "(", ")">>, type |-> "function"],
     [text |-> <<"f", "a">>, type |-> "column"],
     [text |-> <<"+">>, type |-> "op"] >>

IsPrefix(w, s) == Len(w) <= Len(s) /\ SubSeq(s, 1, Len(w)) = w

\* acTree.complete(word): the suggestions whose text starts with word
Complete(word) == SelectSeq(suggestionsList, LAMBDA s : IsPrefix(word, s.text))

OfType(list, ty) == SelectSeq(list, LAMBDA s : s.type = ty)

\* .sort((x, y) => sortOrder[x.type] - sortOrder[y.type]): a stable sort
SortByType(list) ==
  OfType(list, "column") \o OfType(list, "function") \o OfType(list, "op")

\* .sort(columns first)
ColumnsFirst(list) ==
  OfType(list, "column") \o SelectSeq(list, LAMBDA s : s.type # "column")

(***************************************************************************)
(* findEnclosingFunction(text, offset), the helper of the cursor handler.  *)
(*   formulaRegex = /\b(?<!['"])(\w+)\s*\(/g ,  quoteRegex = /"/g           *)
(* A match of formulaRegex starts at the first character of a word that is *)
(* not preceded by a quote character, takes the whole word, any white      *)
(* space, and the "(" after it.  The empty name stands for null.           *)
(***************************************************************************)
RECURSIVE SkipWord(_, _)
SkipWord(t, i) ==
  IF i < Len(t) /\ IsWord(Char(t, i)) THEN SkipWord(t, i + 1) ELSE i

RECURSIVE SkipSpace(_, _)
SkipSpace(t, i) ==
  IF i < Len(t) /\ IsSpace(Char(t, i)) THEN SkipSpace(t, i + 1) ELSE i

\* formulaRegex matches at index p
MatchAt(t, p) ==
  /\ p < Len(t)
  /\ IsWord(Char(t, p))
  /\ (p = 0 \/ ~IsWord(Char(t, p - 1)))
  /\ (p = 0 \/ Char(t, p - 1) \notin {SQ, DQ})
  /\ LET k == SkipSpace(t, SkipWord(t, p))
     IN k < Len(t) /\ Char(t, k) = "("

\* the indices at which formulaRegex matches
MatchStarts(t) == {p \in 0 .. Len(t) : MatchAt(t, p)}

\* match[1] and formulaRegex.lastIndex of the match at p
MatchName(t, p) == Substring(t, p, SkipWord(t, p))
MatchLastIndex(t, p) == SkipSpace(t, SkipWord(t, p)) + 1

\* formulaRegex.exec(text) with lastIndex = from: the index of the next
\* match, or -1
NextMatch(t, from) ==
  LET later == {p \in MatchStarts(t) : p >= from}
  IN IF later = {} THEN -1
     ELSE CHOOSE p \in later : \A q \in later : p <= q

OpenSet == {"(", ",", "{"}
CloseSet == {"}", ",", ")"}

RECURSIVE findEnclosingFunction(_, _)
RECURSIVE ScanArgs(_, _, _, _, _, _, _, _)
RECURSIVE QuoteLoop(_, _, _, _)
RECURSIVE MatchLoop(_, _, _, _, _, _)

\* the for loop over text[lastIndex ..]: yields functionData.end, the last
\* childValueEnd, and nested (the result of the nested call, when made)
ScanArgs(t, off, fstart, nameLen, i, bal, cvs, cve) ==
  IF i >= Len(t)
  THEN [ended |-> FALSE, end |-> 0, cve |-> cve, nested |-> FALSE, name |-> << >>]
  ELSE
    LET c == Char(t, i)
        bal1 == IF c = "(" THEN bal + 1 ELSE IF c = ")" THEN bal - 1 ELSE bal
    IN IF c = ")" /\ bal1 = 0
       THEN [ended |-> TRUE, end |-> i + 1, cve |-> cve, nested |-> FALSE, name |-> << >>]
       ELSE
         LET cvs1 == IF c \in OpenSet THEN i
                     ELSE IF cvs # -1 /\ c \in CloseSet THEN -1
                     ELSE cvs
             cve1 == IF c \notin OpenSet /\ cvs # -1 /\ c \in CloseSet THEN i
                     ELSE cve
         IN IF i >= off
            THEN IF bal1 > 0
                 THEN [ended |-> TRUE, end |-> i + 1, cve |-> cve1,
                       nested |-> FALSE, name |-> << >>]
                 ELSE LET nestedFunction ==
                            findEnclosingFunction(
                              Substring(t, fstart + nameLen + 1, i),
                              off - fstart - nameLen - 1)
                      IN [ended |-> FALSE, end |-> 0, cve |-> cve1,
                          nested |-> TRUE, name |-> nestedFunction]
            ELSE ScanArgs(t, off, fstart, nameLen, i + 1, bal1, cvs1, cve1)

\* the while loop over quoteRegex.exec(text): quoteRegex keeps its
\* lastIndex (qLast) between the iterations of the outer loop, a match is
\* consumed also when it ends the loop, and a failed exec resets it to 0
QuoteLoop(t, mIndex, qLast, inQuote) ==
  LET later == {q \in qLast .. (Len(t) - 1) : Char(t, q) = DQ}
  IN IF later = {} THEN [qLast |-> 0, inQuote |-> inQuote]
     ELSE LET q == CHOOSE x \in later : \A y \in later : x <= y
          IN IF q < mIndex THEN QuoteLoop(t, mIndex, q + 1, ~inQuote)
             ELSE [qLast |-> q + 1, inQuote |-> inQuote]

\* the while loop over formulaRegex.exec(text); yields the function stack,
\* or the nested function a return inside the loop gave
MatchLoop(t, off, from, inQuote, qLast, functionStack) ==
  LET m == NextMatch(t, from)
  IN IF m = -1 \/ m > off
     THEN [returned |-> FALSE, name |-> << >>, stack |-> functionStack]
     ELSE
       LET name == MatchName(t, m)
           lastIndex == MatchLastIndex(t, m)
           scan == ScanArgs(t, off, m, Len(name), lastIndex, 1, -1, -1)
           end0 == IF scan.ended THEN scan.end ELSE lastIndex
           end1 == IF scan.cve # -1 /\ scan.cve < off THEN scan.cve + 1 ELSE end0
           functionData == [name |-> name, start |-> m, end |-> end1]
           \* a nested call that found nothing pushes functionData and
           \* leaves the for loop; the push after the loop follows
           pushed == IF inQuote THEN functionStack
                     ELSE IF scan.nested
                          THEN functionStack \o <<functionData, functionData>>
                          ELSE Append(functionStack, functionData)
           quotes == QuoteLoop(t, m, qLast, inQuote)
       IN IF ~inQuote /\ scan.nested /\ scan.name # << >>
          THEN [returned |-> TRUE, name |-> scan.name, stack |-> functionStack]
          ELSE MatchLoop(t, off, lastIndex, quotes.inQuote, quotes.qLast, pushed)

findEnclosingFunction(t, off) ==
  LET r == MatchLoop(t, off, 0, FALSE, 0, << >>)
      enclosingFunctions ==
        SelectSeq(r.stack, LAMBDA func : func.start <= off /\ func.end >= off)
  IN IF r.returned THEN r.name
     ELSE IF Len(enclosingFunctions) > 0
          THEN enclosingFunctions[Len(enclosingFunctions)].name
          ELSE << >>

(***************************************************************************)
(* The formula editor's handlers.                                          *)
(***************************************************************************)
\* query.split(/\W+/).pop() || '': the last run of word characters of query
LastWord(query) == Substring(query, WordLeft(query, 0, Len(query)), Len(query))

\* suggestionsList.find((s) => s.text === `${lastFunction}()`) || undefined,
\* as a list of at most one suggestion
FindPreview(fn) ==
  LET found == SelectSeq(suggestionsList, LAMBDA s : s.text = fn \o <<"(", ")">>)
  IN IF found = << >> THEN << >> ELSE <<Head(found)>>

\* the value handleInput leaves in priority.value when it runs past the
\* string check
PriorityAfterInput(t, off) ==
  LET p1 == IF ~isCursorBetweenParenthesis(t, off) THEN 1 ELSE priority
  IN IF isCursorBetweenParenthesis(t, off) THEN -1 ELSE p1

\* handleInput() on text t with the cursor at off
handleInput(t, off) ==
  IF isCursorInsideString(t, off)
  THEN /\ autocomplete' = FALSE
       /\ suggestion' = << >>
       /\ UNCHANGED <<priority, selected, wordToComplete, showFunctionList>>
  ELSE LET query == getCurrentKeyword(t, off)
           word == LastWord(query)
           completed == SortByType(Complete(word))
           between == isCursorBetweenParenthesis(t, off)
       IN /\ priority' = PriorityAfterInput(t, off)
          /\ selected' = 0
          /\ wordToComplete' = word
          /\ suggestion' = IF between THEN ColumnsFirst(completed) ELSE completed
          /\ showFunctionList' = IF ~between /\ ~showFunctionList
                                 THEN TRUE ELSE showFunctionList
          /\ autocomplete' = (Len(suggestion') # 0)

\* the callback of editor.onDidChangeCursorPosition
OnDidChangeCursorPosition(t, off) ==
  /\ IF isCursorInsideString(t, off)
     THEN /\ autocomplete' = FALSE
          /\ suggestion' = << >>
          /\ UNCHANGED <<priority, selected, wordToComplete, showFunctionList>>
     ELSE handleInput(t, off)
  /\ lastFunction' = findEnclosingFunction(t, off)
  /\ suggestionPreviewed' = FindPreview(lastFunction')
  /\ lastEvent' = "cursor"

\* a character is typed at the cursor: the content changes (the callback of
\* onDidChangeModelContent schedules the debounced handleInput) and the
\* cursor moves behind the character
InsertChar(c) ==
  /\ Len(text) < MaxTextLen
  /\ text' = Substring(text, 0, offset) \o <<c>> \o Substring(text, offset, Len(text))
  /\ offset' = offset + 1
  /\ debPending' = TRUE
  /\ OnDidChangeCursorPosition(text', offset')

\* the character before the cursor is deleted
DeleteChar ==
  /\ offset > 0
  /\ text' = Substring(text, 0, offset - 1) \o Substring(text, offset, Len(text))
  /\ offset' = offset - 1
  /\ debPending' = TRUE
  /\ OnDidChangeCursorPosition(text', offset')

\* the cursor is moved (arrow keys, mouse)
MoveCursor(o) ==
  /\ o # offset
  /\ offset' = o
  /\ UNCHANGED <<text, debPending>>
  /\ OnDidChangeCursorPosition(text, o)

\* the debounce timer (250 ms) of handleInputDeb fires
HandleInputDeb ==
  /\ debPending
  /\ debPending' = FALSE
  /\ handleInput(text, offset)
  /\ lastEvent' = "input"
  /\ UNCHANGED <<text, offset, lastFunction, suggestionPreviewed>>

\* the order of the two sections of the suggestion panel (template)
FormulasOrder == IF priority = -1 THEN 2 ELSE 1
FieldsOrder == IF priority = 1 THEN 2 ELSE 1

InitEditor ==
  /\ text = << >>
  /\ offset = 0
  /\ suggestion = suggestionsList
  /\ autocomplete = FALSE
  /\ priority = 0
  /\ selected = 0
  /\ wordToComplete = << >>
  /\ showFunctionList = TRUE
  /\ lastFunction = << >>
  /\ suggestionPreviewed = << >>
  /\ debPending = FALSE
  /\ lastEvent = "none"

(***************************************************************************)
(* validators.formula_raw: the validator of the formula field.  A formula  *)
(* is [isNull, chars]; isNull stands for undefined or null.                *)
(***************************************************************************)
RECURSIVE TrimStart(_)
TrimStart(str) ==
  IF str # << >> /\ IsSpace(Head(str)) THEN TrimStart(Tail(str)) ELSE str

RECURSIVE TrimEnd(_)
TrimEnd(str) ==
  IF str # << >> /\ IsSpace(str[Len(str)])
  THEN TrimEnd(SubSeq(str, 1, Len(str) - 1)) ELSE str

\* String.prototype.trim
Trim(str) == TrimEnd(TrimStart(str))

\* a truthiness test on the formula as it is, without trim()
FormulaBlank_NoTrim(f) == f.isNull \/ f.chars = << >>

\* !formula?.trim()
FormulaBlank(f) == f.isNull \/ Trim(f.chars) = << >>

\* t(e.extra.key, e.extra): the translated message of a key
Translate(key) == IF key = "k1" THEN "translated k1" ELSE "translated k2"

\* what the SDK call can do: return, throw a FormulaError (with or without
\* extra.key), or throw another error; message is e.message
SdkOutcomes ==
  {[kind |-> "returns", hasKey |-> FALSE, key |-> "", message |-> ""]}
  \cup [kind : {"FormulaError"}, hasKey : {TRUE}, key : {"k1", "k2"}, message : {"m1"}]
  \cup [kind : {"FormulaError", "Error"}, hasKey : {FALSE}, key : {""}, message : {"m1", "m2"}]

NotCalled == [kind |-> "not called", hasKey |-> FALSE, key |-> "", message |-> ""]

\* the promise the validator returns for formula f when the SDK does sdk
ValidatorResult(f, sdk) ==
  IF FormulaBlank(f) THEN [status |-> "rejected", message |-> "Required"]
  ELSE IF sdk.kind = "returns" THEN [status |-> "accepted", message |-> ""]
  ELSE IF sdk.kind = "FormulaError" /\ sdk.hasKey
       THEN [status |-> "rejected", message |-> Translate(sdk.key)]
  ELSE [status |-> "rejected", message |-> sdk.message]

FormulaChars == {" ", "a"}
Formulas ==
  [isNull : {TRUE}, chars : {<< >>}]
  \cup [isNull : {FALSE},
        chars : UNION {[1 .. n -> FormulaChars] : n \in 0 .. MaxFormulaLen}]

\* the form runs the validator on formula f; the SDK, when called, does sdk
Validate(f, sdk) ==
  /\ vCount < MaxValidations
  /\ vCount' = vCount + 1
  /\ vFormula' = f
  /\ vSdkCalled' = ~FormulaBlank(f)
  /\ vSdk' = IF vSdkCalled' THEN sdk ELSE NotCalled
  /\ vResult' = ValidatorResult(f, sdk)

InitValidator ==
  /\ vFormula = [isNull |-> TRUE, chars |-> << >>]
  /\ vSdk = NotCalled
  /\ vSdkCalled = FALSE
  /\ vResult = [status |-> "none", message |-> ""]
  /\ vCount = 0

(***************************************************************************)
(* The base collaborator table (project/AccessSettings.vue).               *)
(* Null stands for null and undefined.                                     *)
(***************************************************************************)
Null == "null"

\* nocodb-sdk: the project roles, highest first
OrderedProjectRoles ==
  <<"owner", "creator", "editor", "commenter", "viewer", "no-access">>
NO_ACCESS == "no-access"

\* nocodb-sdk: the project role a workspace role gives; Null where the
\* mapping has no entry
WorkspaceRolesToProjectRoles(ws) ==
  CASE ws = "workspace-level-owner" -> "owner"
    [] ws = "workspace-level-creator" -> "creator"
    [] ws = "workspace-level-editor" -> "editor"
    [] ws = "workspace-level-commenter" -> "commenter"
    [] ws = "workspace-level-viewer" -> "viewer"
    [] ws = "workspace-level-no-access" -> "no-access"
    [] OTHER -> Null

\* array.slice(from)
Slice(arr, from) == IF from >= Len(arr) THEN << >> ELSE SubSeq(arr, from + 1, Len(arr))

Range(arr) == {arr[i] : i \in 1 .. Len(arr)}

\* array.findIndex(pred), over the set of elements that satisfy pred: -1 when
\* there is none
FindIndex(arr, hits) ==
  LET idx == {i \in 1 .. Len(arr) : arr[i] \in hits}
  IN IF idx = {} THEN -1 ELSE (CHOOSE i \in idx : \A j \in idx : i <= j) - 1

(***************************************************************************)
(* The backend: the users of the bases.  A user's email, display name,     *)
(* deleted mark and workspace role do not change; the direct base role     *)
(* (srvRoles) is changed by createProjectUser, updateProjectUser and       *)
(* removeProjectUser.                                                      *)
(***************************************************************************)
Bases == {"b1", "b2"}
UserOrder == <<"u1", "u2", "u3">>
Users == Range(UserOrder)

Email(u) == CASE u = "u1" -> <<"a">> [] u = "u2" -> <<"B">> [] OTHER -> <<"a", "b">>
HasDisplayName(u) == u = "u1"
DisplayName(u) == IF u = "u1" THEN <<"A">> ELSE << >>
Deleted(u) == u = "u3"

\* String.prototype.toLowerCase
LowerChar(c) == CASE c = "A" -> "a" [] c = "B" -> "b" [] OTHER -> c
ToLowerCase(str) == [i \in 1 .. Len(str) |-> LowerChar(str[i])]

\* String.prototype.includes
Includes(str, sub) ==
  \E i \in 0 .. (Len(str) - Len(sub)) : Substring(str, i, i + Len(sub)) = sub

\* the search texts typed in the search box
SearchTexts == {<< >>, <<"a">>}

\* the filter of filteredCollaborators, for the user with id u
MatchesSearch(u, search) ==
  \/ (HasDisplayName(u)
       /\ Includes(ToLowerCase(DisplayName(u)), ToLowerCase(search)))
  \/ Includes(ToLowerCase(Email(u)), ToLowerCase(search))

\* the role of the workspace wins over the direct role
RolesOfUser_WorkspaceFirst(user) ==
  IF user.workspace_roles # Null
       /\ WorkspaceRolesToProjectRoles(user.workspace_roles) # Null
    THEN WorkspaceRolesToProjectRoles(user.workspace_roles)
    ELSE IF user.roles # Null THEN user.roles ELSE NO_ACCESS

\* the roles value of a collaborator row, made by loadCollaborators from one
\* returned user
RolesOfUser(user) ==
  IF user.roles # Null
    THEN user.roles
    ELSE IF user.workspace_roles # Null
           THEN IF WorkspaceRolesToProjectRoles(user.workspace_roles) # Null
                  THEN WorkspaceRolesToProjectRoles(user.workspace_roles)
                  ELSE NO_ACCESS
           ELSE NO_ACCESS

CollaboratorOf(user) ==
  [id |-> user.id, workspace_roles |-> user.workspace_roles,
   deleted |-> user.deleted,
   base_roles |-> user.roles, roles |-> RolesOfUser(user)]

\* users.filter((u) => !u?.deleted).map(...)
CollaboratorsOf(users) ==
  LET kept == SelectSeq(users, LAMBDA u : ~u.deleted)
  IN [i \in 1 .. Len(kept) |-> CollaboratorOf(kept[i])]

\* collaborators.value.find((coll) => coll.id === id)
HasCollaborator(list, id) == \E i \in 1 .. Len(list) : list[i].id = id
FindCollaborator(list, id) ==
  list[CHOOSE i \in 1 .. Len(list) :
         list[i].id = id /\ \A j \in 1 .. (i - 1) : list[j].id # id]

\* assignment to the fields of the list's object with this id
AssignCollaborator(list, id, newRoles, newBaseRoles) ==
  [i \in 1 .. Len(list) |->
     IF list[i].id = id
       THEN [list[i] EXCEPT !.roles = newRoles, !.base_roles = newBaseRoles]
       ELSE list[i]]

\* the condition of the remove branch of updateCollaborator; roles is never
\* falsy here, a role of the selector being a non-empty string
InheritsRole(collab, roles, ee) ==
  /\ collab.workspace_roles # Null
  /\ WorkspaceRolesToProjectRoles(collab.workspace_roles) = roles
  /\ ee

RemoveBranch(collab, roles, ee) ==
  \/ roles = Null
  \/ (roles = NO_ACCESS /\ ~ee)
  \/ InheritsRole(collab, roles, ee)

BranchOf(collab, roles, ee) ==
  IF RemoveBranch(collab, roles, ee) THEN "remove"
  ELSE IF collab.base_roles # Null THEN "update"
  ELSE "create"

\* the role cell of the table: a selector or a badge
RoleCell(roles, accessible) ==
  IF roles \in Range(accessible) THEN "RolesSelector" ELSE "RolesBadge"

\* the inherit prop of the selector
InheritProp(record, ee) ==
  IF ee /\ record.workspace_roles # Null
       /\ WorkspaceRolesToProjectRoles(record.workspace_roles) # Null
    THEN WorkspaceRolesToProjectRoles(record.workspace_roles)
    ELSE Null

\* the slice keeps the acting user's own role
AccessibleRolesOnMount_Inclusive(held, super, current) ==
  LET currentRoleIndex == FindIndex(OrderedProjectRoles, held)
  IN IF super THEN Slice(OrderedProjectRoles, 1)
     ELSE IF currentRoleIndex # -1
            THEN Slice(OrderedProjectRoles, currentRoleIndex)
            ELSE current

\* onMounted: the roles the acting user may give
AccessibleRolesOnMount(held, super, current) ==
  LET currentRoleIndex == FindIndex(OrderedProjectRoles, held)
  IN IF super THEN Slice(OrderedProjectRoles, 1)
     ELSE IF currentRoleIndex # -1
            THEN Slice(OrderedProjectRoles, currentRoleIndex + 1)
            ELSE current

(***************************************************************************)
(* The state of the base collaborator table, of the stores it uses and of  *)
(* the backend behind them.                                                *)
(***************************************************************************)
VARIABLES isEeUI, baseRoles, isSuper, wsRoleOf, srvRoles, currentBase,
          collaborators, totalCollaborators, userSearchText,
          isInviteModalVisible, isLoading, accessibleRoles, mountPhase, loads,
          ops, listGen, listBase, nLoads, nCalls, nBaseChanges, basesUser,
          anyFailed, overlapped, ev

accVars ==
  <<isEeUI, baseRoles, isSuper, wsRoleOf, srvRoles, currentBase,
    collaborators, totalCollaborators, userSearchText,
    isInviteModalVisible, isLoading, accessibleRoles, mountPhase, loads,
    ops, listGen, listBase, nLoads, nCalls, nBaseChanges, basesUser,
    anyFailed, overlapped, ev>>

\* the bounds of the base collaborator table
MaxLoads == 2
MaxCalls == 2
MaxBaseChanges == 1

\* getBaseUsers (the bases store and the backend behind it): the users the
\* base lists, with or without a direct role, narrowed by the search text
\* when one is sent
BaseUser(b, u) ==
  [id |-> u, roles |-> srvRoles[b][u], workspace_roles |-> wsRoleOf[u],
   deleted |-> Deleted(u)]

getBaseUsers(b, search) ==
  LET ids == SelectSeq(UserOrder,
               LAMBDA u : search = << >> \/ MatchesSearch(u, search))
  IN [i \in 1 .. Len(ids) |-> BaseUser(b, ids[i])]

\* filteredCollaborators
filteredCollaborators ==
  SelectSeq(collaborators, LAMBDA collab : MatchesSearch(collab.id, userSearchText))

\* the request of one loadCollaborators run
NoId == "none"
NewLoad(b, cause, id, preRoles, preBaseRoles) ==
  [n |-> nLoads + 1, base |-> b, search |-> userSearchText, phase |-> "sent",
   ok |-> FALSE, users |-> << >>, totalRows |-> 0, cause |-> cause,
   forId |-> id, preRoles |-> preRoles, preBaseRoles |-> preBaseRoles]

\* loadCollaborators up to its await: nothing without a current base
loadCollaborators(b, cause, id, preRoles, preBaseRoles) ==
  IF b = Null
    THEN /\ loads' = loads
         /\ nLoads' = nLoads
    ELSE /\ nLoads < MaxLoads
         /\ loads' = loads \cup {NewLoad(b, cause, id, preRoles, preBaseRoles)}
         /\ nLoads' = nLoads + 1

NoLoad ==
  [n |-> 0, base |-> Null, search |-> << >>, phase |-> "none", ok |-> FALSE,
   users |-> << >>, totalRows |-> 0, cause |-> "none", forId |-> NoId,
   preRoles |-> Null, preBaseRoles |-> Null]
NoObj == [roles |-> Null, base_roles |-> Null]
NoOp ==
  [n |-> 0, id |-> NoId, roles |-> Null, branch |-> "none", base |-> Null,
   gen |-> 0, obj |-> NoObj, phase |-> "none", ok |-> FALSE,
   workspace_roles |-> Null, preRoles |-> Null, preBaseRoles |-> Null]

Event(type, load, op) ==
  [type |-> type, load |-> load, op |-> op]

\* onMounted after its await
FinishMount ==
  /\ accessibleRoles' = AccessibleRolesOnMount(baseRoles, isSuper, accessibleRoles)
  /\ isLoading' = FALSE
  /\ mountPhase' = "mounted"

\* onMounted
Mount ==
  /\ mountPhase = "created"
  /\ loadCollaborators(currentBase, "mount", NoId, Null, Null)
  /\ IF currentBase = Null
       THEN FinishMount
       ELSE /\ isLoading' = TRUE
            /\ mountPhase' = "loading"
            /\ UNCHANGED accessibleRoles
  /\ overlapped' = (overlapped \/ (currentBase # Null /\ (ops # {} \/ loads # {})))
  /\ ev' = Event(IF currentBase = Null THEN "loadSkipped" ELSE "mount", NoLoad, NoOp)
  /\ UNCHANGED <<isEeUI, baseRoles, isSuper, wsRoleOf, srvRoles, currentBase,
                 collaborators, totalCollaborators, userSearchText,
                 isInviteModalVisible, ops, listGen, nCalls, nBaseChanges,
                 basesUser, anyFailed, listBase>>

\* watch(currentBase): the computed base has changed
BaseChange(b) ==
  /\ mountPhase # "created"
  /\ b # currentBase
  /\ nBaseChanges < MaxBaseChanges
  /\ nBaseChanges' = nBaseChanges + 1
  /\ currentBase' = b
  /\ loadCollaborators(b, "base", NoId, Null, Null)
  /\ overlapped' = (overlapped \/ (b # Null /\ (ops # {} \/ loads # {})))
  /\ ev' = Event(IF b = Null THEN "loadSkipped" ELSE "base", NoLoad, NoOp)
  /\ UNCHANGED <<isEeUI, baseRoles, isSuper, wsRoleOf, srvRoles,
                 collaborators, totalCollaborators, userSearchText,
                 isInviteModalVisible, isLoading, accessibleRoles, mountPhase,
                 ops, listGen, nCalls, basesUser, anyFailed, listBase>>

\* the search box (v-model:value="userSearchText")
SetSearch(s) ==
  /\ mountPhase # "created"
  /\ ~isLoading
  /\ s # userSearchText
  /\ userSearchText' = s
  /\ ev' = Event("search", NoLoad, NoOp)
  /\ UNCHANGED <<isEeUI, baseRoles, isSuper, wsRoleOf, srvRoles, currentBase,
                 collaborators, totalCollaborators, isInviteModalVisible,
                 isLoading, accessibleRoles, mountPhase, loads, ops, listGen,
                 nLoads, nCalls, nBaseChanges, basesUser, anyFailed, listBase,
                 overlapped>>

\* the add-members button
OpenInvite ==
  /\ mountPhase # "created"
  /\ ~isLoading
  /\ ~isInviteModalVisible
  /\ isInviteModalVisible' = TRUE
  /\ ev' = Event("openInvite", NoLoad, NoOp)
  /\ UNCHANGED <<isEeUI, baseRoles, isSuper, wsRoleOf, srvRoles, currentBase,
                 collaborators, totalCollaborators, userSearchText,
                 isLoading, accessibleRoles, mountPhase, loads, ops, listGen,
                 nLoads, nCalls, nBaseChanges, basesUser, anyFailed, listBase,
                 overlapped>>

\* watch(isInviteModalVisible): the dialog has closed
CloseInvite ==
  /\ isInviteModalVisible
  /\ isInviteModalVisible' = FALSE
  /\ loadCollaborators(currentBase, "invite", NoId, Null, Null)
  /\ overlapped' = (overlapped \/ (currentBase # Null /\ (ops # {} \/ loads # {})))
  /\ ev' = Event(IF currentBase = Null THEN "loadSkipped" ELSE "closeInvite", NoLoad, NoOp)
  /\ UNCHANGED <<isEeUI, baseRoles, isSuper, wsRoleOf, srvRoles, currentBase,
                 collaborators, totalCollaborators, userSearchText,
                 isLoading, accessibleRoles, mountPhase, ops, listGen,
                 nCalls, nBaseChanges, basesUser, anyFailed, listBase>>

\* the backend answers a getBaseUsers request
ServeLoad(l) ==
  /\ l \in loads
  /\ l.phase = "sent"
  /\ loads' = (loads \ {l}) \cup
       {[l EXCEPT !.phase = "served", !.ok = TRUE,
                  !.users = getBaseUsers(l.base, l.search),
                  !.totalRows = Len(getBaseUsers(l.base, l.search))]}
  /\ ev' = Event("served", NoLoad, NoOp)
  /\ UNCHANGED <<isEeUI, baseRoles, isSuper, wsRoleOf, srvRoles, currentBase,
                 collaborators, totalCollaborators, userSearchText,
                 isInviteModalVisible, isLoading, accessibleRoles, mountPhase,
                 ops, listGen, listBase, nLoads, nCalls, nBaseChanges,
                 basesUser, anyFailed, overlapped>>

\* an updateCollaborator run that waits for the backend keeps the object it
\* found in the list; when the list is replaced the object is no longer part
\* of it, and is kept here with the call
Detach(op) ==
  IF op.gen = listGen
    THEN [op EXCEPT !.obj = [roles |-> FindCollaborator(collaborators, op.id).roles,
                             base_roles |-> FindCollaborator(collaborators, op.id).base_roles]]
    ELSE op

\* an identity for the objects of a new list, not that of any object kept
\* with a call
FreshGen(used) == CHOOSE g \in 0 .. Cardinality(used) : g \notin used

\* a loadCollaborators that would drop the answer of a request that is no
\* longer the newest one issued
DeliverLoad_NewestOnly(l) ==
  /\ l \in loads
  /\ loads' = loads \ {l}
  /\ IF l.ok /\ l.n = nLoads
       THEN /\ totalCollaborators' = l.totalRows
            /\ collaborators' = CollaboratorsOf(l.users)
            /\ listGen' = FreshGen({Detach(op).gen : op \in ops})
            /\ listBase' = l.base
            /\ ops' = {Detach(op) : op \in ops}
       ELSE UNCHANGED <<totalCollaborators, collaborators, listGen, listBase, ops>>
  /\ IF l.cause = "mount"
       THEN FinishMount
       ELSE UNCHANGED <<accessibleRoles, isLoading, mountPhase>>
  /\ ev' = Event(IF l.ok THEN "loaded" ELSE "loadFailed", l, NoOp)
  /\ UNCHANGED <<isEeUI, baseRoles, isSuper, wsRoleOf, srvRoles, currentBase,
                 userSearchText, isInviteModalVisible, nLoads, nCalls,
                 nBaseChanges, basesUser, anyFailed, overlapped>>

\* loadCollaborators after its await: the answer has come, or the request
\* has failed and getBaseUsers throws
DeliverLoad(l) ==
  /\ l \in loads
  /\ loads' = loads \ {l}
  /\ IF l.ok
       THEN /\ totalCollaborators' = l.totalRows
            /\ collaborators' = CollaboratorsOf(l.users)
            /\ listGen' = FreshGen({Detach(op).gen : op \in ops})
            /\ listBase' = l.base
            /\ ops' = {Detach(op) : op \in ops}
       ELSE UNCHANGED <<totalCollaborators, collaborators, listGen, listBase, ops>>
  /\ IF l.cause = "mount"
       THEN FinishMount
       ELSE UNCHANGED <<accessibleRoles, isLoading, mountPhase>>
  /\ ev' = Event(IF l.ok THEN "loaded" ELSE "loadFailed", l, NoOp)
  /\ UNCHANGED <<isEeUI, baseRoles, isSuper, wsRoleOf, srvRoles, currentBase,
                 userSearchText, isInviteModalVisible, nLoads, nCalls,
                 nBaseChanges, basesUser, anyFailed, overlapped>>

\* updateCollaborator up to its await: the branch, the change made to the
\* list's object before the call, and the call
UpdateStart(id, roles) ==
  /\ mountPhase # "created"
  /\ nCalls < MaxCalls
  /\ HasCollaborator(filteredCollaborators, id)
  /\ LET currentCollaborator == FindCollaborator(collaborators, id)
         branch == BranchOf(currentCollaborator, roles, isEeUI)
         op == [n |-> nCalls + 1, id |-> id, roles |-> roles, branch |-> branch,
                base |-> currentBase, gen |-> listGen, obj |-> NoObj,
                phase |-> "sent", ok |-> FALSE,
                workspace_roles |-> currentCollaborator.workspace_roles,
                preRoles |-> currentCollaborator.roles,
                preBaseRoles |-> currentCollaborator.base_roles]
     IN /\ RoleCell(currentCollaborator.roles, accessibleRoles) = "RolesSelector"
        /\ roles \in (Range(accessibleRoles)
                        \cup {InheritProp(currentCollaborator, isEeUI)}) \ {Null}
        /\ collaborators' =
             CASE branch = "update" ->
                    AssignCollaborator(collaborators, id, roles,
                                       currentCollaborator.base_roles)
               [] branch = "create" ->
                    AssignCollaborator(collaborators, id, roles, roles)
               [] OTHER -> collaborators
        \* currentBase.value.id throws without a current base: the catch
        \* block reports it and its loadCollaborators does nothing
        /\ ops' = IF currentBase = Null THEN ops ELSE ops \cup {op}
        /\ anyFailed' = (anyFailed \/ currentBase = Null)
        /\ overlapped' = (overlapped \/ ops # {} \/ loads # {})
        /\ ev' = Event(IF currentBase = Null THEN "updateThrew" ELSE "updateStart",
                       NoLoad, op)
  /\ nCalls' = nCalls + 1
  /\ UNCHANGED <<isEeUI, baseRoles, isSuper, wsRoleOf, srvRoles, currentBase,
                 totalCollaborators, userSearchText, isInviteModalVisible,
                 isLoading, accessibleRoles, mountPhase, loads, listGen,
                 listBase, nLoads, nBaseChanges, basesUser>>

\* createProjectUser, updateProjectUser, removeProjectUser (the bases store
\* and the backend behind it): the backend sets the direct role of the user
\* in the base
BackendApply(op) ==
  /\ op \in ops
  /\ op.phase = "sent"
  /\ ops' = (ops \ {op}) \cup {[op EXCEPT !.phase = "applied", !.ok = TRUE]}
  /\ srvRoles' = [srvRoles EXCEPT ![op.base][op.id] =
                    IF op.branch = "remove" THEN Null ELSE op.roles]
  /\ ev' = Event("applied", NoLoad, NoOp)
  /\ UNCHANGED <<isEeUI, baseRoles, isSuper, wsRoleOf, currentBase,
                 collaborators, totalCollaborators, userSearchText,
                 isInviteModalVisible, isLoading, accessibleRoles, mountPhase,
                 loads, listGen, listBase, nLoads, nCalls, nBaseChanges,
                 basesUser, anyFailed, overlapped>>

\* updateCollaborator after its await: the backend has done the call, or the
\* call has failed and throws
UpdateResume(op) ==
  /\ op \in ops
  /\ LET attached == op.gen = listGen
         obj == IF attached
                  THEN [roles |-> FindCollaborator(collaborators, op.id).roles,
                        base_roles |-> FindCollaborator(collaborators, op.id).base_roles]
                  ELSE op.obj
         newObj == IF op.branch = "remove"
                     THEN [roles |-> IF InheritsRole(op, op.roles, isEeUI)
                                       THEN WorkspaceRolesToProjectRoles(op.workspace_roles)
                                       ELSE NO_ACCESS,
                           base_roles |-> Null]
                     ELSE obj
         currentBaseUsers == basesUser[currentBase]
     IN IF op.ok
          THEN /\ collaborators' =
                    IF attached
                      THEN AssignCollaborator(collaborators, op.id,
                                              newObj.roles, newObj.base_roles)
                      ELSE collaborators
               /\ ops' = {IF ~attached /\ p.gen = op.gen /\ p.id = op.id
                            THEN [p EXCEPT !.obj = newObj] ELSE p : p \in ops \ {op}}
               \* currentBase.value.id throws without a current base
               /\ basesUser' =
                    IF currentBase = Null
                      THEN basesUser
                      ELSE [basesUser EXCEPT ![currentBase] =
                              [i \in 1 .. Len(currentBaseUsers) |->
                                 IF currentBaseUsers[i].id = op.id
                                   THEN [currentBaseUsers[i] EXCEPT !.roles = newObj.roles]
                                   ELSE currentBaseUsers[i]]]
               /\ anyFailed' = (anyFailed \/ currentBase = Null)
               /\ ev' = Event(IF currentBase = Null THEN "updateThrew" ELSE "updateDone",
                              NoLoad, op)
               /\ UNCHANGED <<loads, nLoads, overlapped>>
          ELSE /\ ops' = ops \ {op}
               /\ anyFailed' = TRUE
               /\ loadCollaborators(currentBase, "error", op.id, op.preRoles,
                                    op.preBaseRoles)
               /\ overlapped' = (overlapped
                                   \/ (currentBase # Null /\ (ops # {op} \/ loads # {})))
               /\ ev' = Event("updateFailed", NoLoad, op)
               /\ UNCHANGED <<collaborators, basesUser>>
  /\ UNCHANGED <<isEeUI, baseRoles, isSuper, wsRoleOf, srvRoles, currentBase,
                 totalCollaborators, userSearchText, isInviteModalVisible,
                 isLoading, accessibleRoles, mountPhase, listGen, listBase,
                 nCalls, nBaseChanges>>

\* the workspace roles and the direct base roles the users start with
WsRoles(ee) ==
  [u \in Users |->
     CASE ee /\ u = "u1" -> "workspace-level-guest"
       [] ee /\ u = "u2" -> "workspace-level-viewer"
       [] OTHER -> Null]

SrvRoleChoices ==
  {[b \in Bases |->
      [u \in Users |->
         CASE b = "b1" /\ u = "u1" -> "viewer"
           [] b = "b1" /\ u = "u3" -> "viewer"
           [] b = "b2" /\ u = "u2" -> "commenter"
           [] OTHER -> Null]]}

\* the table as created, for an acting user with the roles held
InitAccess(heldChoices, superChoices, eeChoices, srvChoices) ==
  /\ isEeUI \in eeChoices
  /\ baseRoles \in heldChoices
  /\ isSuper \in superChoices
  /\ wsRoleOf = WsRoles(isEeUI)
  /\ srvRoles \in srvChoices
  /\ currentBase = Null
  /\ collaborators = << >>
  /\ totalCollaborators = 0
  /\ userSearchText = << >>
  /\ isInviteModalVisible = FALSE
  /\ isLoading = FALSE
  /\ accessibleRoles = << >>
  /\ mountPhase = "created"
  /\ loads = {}
  /\ ops = {}
  /\ listGen = 0
  /\ listBase = Null
  /\ nLoads = 0
  /\ nCalls = 0
  /\ nBaseChanges = 0
  /\ basesUser = [b \in Bases |-> << >>]
  /\ anyFailed = FALSE
  /\ overlapped = FALSE
  /\ ev = [type |-> "none", load |-> NoLoad, op |-> NoOp]

(***************************************************************************)
(* The workspace collaborator table.                                       *)
(***************************************************************************)
VARIABLES workspaceRoles, currentWorkspace, wsCollaborators, wsOps,
          wsMessages, nWsCalls

wsVars ==
  <<workspaceRoles, currentWorkspace, wsCollaborators, wsOps, wsMessages,
    nWsCalls>>

\* currentWorkspace.value: no workspace, a workspace without an id, or the
\* workspace w1
NoWorkspace == [exists |-> FALSE, id |-> Null]
WorkspaceNoId == [exists |-> TRUE, id |-> Null]
WorkspaceW1 == [exists |-> TRUE, id |-> "w1"]
Workspaces == {NoWorkspace, WorkspaceNoId, WorkspaceW1}

MaxWsCalls == 1

\* nocodb-sdk: the workspace roles, highest first
OrderedWorkspaceRoles ==
  <<"workspace-level-owner", "workspace-level-creator",
    "workspace-level-editor", "workspace-level-commenter",
    "workspace-level-viewer", "workspace-level-no-access">>

\* the computed accessibleRoles of the workspace table (no role is falsy, so
\* the closing filter keeps them all)
wsAccessibleRoles(held) ==
  LET currentRoleIndex == FindIndex(OrderedWorkspaceRoles, held)
  IN IF currentRoleIndex = -1
       THEN << >>
       ELSE SelectSeq(Slice(OrderedWorkspaceRoles, currentRoleIndex + 1),
                      LAMBDA r : r # Null)

\* the role cell of the workspace table
WsRoleCell(roles, accessible) ==
  IF roles \in Range(accessible) THEN "RolesSelector" ELSE "RolesBadge"

\* updateCollaborator of the workspace table up to its await; it returns at
\* once without a current workspace that has an id
WsUpdateStart(id, roles) ==
  /\ nWsCalls < MaxWsCalls
  /\ HasCollaborator(wsCollaborators, id)
  /\ WsRoleCell(FindCollaborator(wsCollaborators, id).roles,
                wsAccessibleRoles(workspaceRoles)) = "RolesSelector"
  /\ roles \in Range(wsAccessibleRoles(workspaceRoles))
  /\ nWsCalls' = nWsCalls + 1
  /\ wsOps' = IF ~currentWorkspace.exists \/ currentWorkspace.id = Null
                THEN wsOps
                ELSE wsOps \cup {[n |-> nWsCalls + 1, id |-> id, roles |-> roles,
                                  workspace |-> currentWorkspace.id,
                                  phase |-> "sent"]}
  /\ UNCHANGED <<workspaceRoles, currentWorkspace, wsCollaborators, wsMessages>>

\* the workspace store's updateCollaborator: the backend makes the change
WsBackendApply(op) ==
  /\ op \in wsOps
  /\ op.phase = "sent"
  /\ wsOps' = (wsOps \ {op}) \cup {[op EXCEPT !.phase = "applied"]}
  /\ UNCHANGED <<workspaceRoles, currentWorkspace, wsCollaborators, wsMessages,
                 nWsCalls>>

\* an updateCollaborator that would assign the role whether or not the
\* store's call has thrown
WsUpdateResume_AlwaysAssign(op) ==
  /\ op \in wsOps
  /\ wsOps' = wsOps \ {op}
  /\ wsMessages' = Append(wsMessages,
                          IF op.phase = "applied" THEN "success" ELSE "error")
  /\ wsCollaborators' =
       [i \in 1 .. Len(wsCollaborators) |->
          IF wsCollaborators[i].id = op.id
            THEN [wsCollaborators[i] EXCEPT !.roles = op.roles]
            ELSE wsCollaborators[i]]
  /\ UNCHANGED <<workspaceRoles, currentWorkspace, nWsCalls>>

\* updateCollaborator of the workspace table after its await: the store's
\* call has returned, or it has thrown because the backend did not make the
\* change
WsUpdateResume(op) ==
  /\ op \in wsOps
  /\ wsOps' = wsOps \ {op}
  /\ IF op.phase = "applied"
       THEN /\ wsMessages' = Append(wsMessages, "success")
            /\ wsCollaborators' =
                 [i \in 1 .. Len(wsCollaborators) |->
                    IF wsCollaborators[i].id = op.id
                      THEN [wsCollaborators[i] EXCEPT !.roles = op.roles]
                      ELSE wsCollaborators[i]]
       ELSE /\ wsMessages' = Append(wsMessages, "error")
            /\ UNCHANGED wsCollaborators
  /\ UNCHANGED <<workspaceRoles, currentWorkspace, nWsCalls>>

InitWorkspace(heldChoices, workspaceChoices) ==
  /\ workspaceRoles \in heldChoices
  /\ currentWorkspace \in workspaceChoices
  /\ wsCollaborators =
       <<[id |-> "u1", roles |-> "workspace-level-editor"],
         [id |-> "u2", roles |-> "workspace-level-viewer"]>>
  /\ wsOps = {}
  /\ wsMessages = << >>
  /\ nWsCalls = 0

(***************************************************************************)
(* The sort of the two collaborator tables: orderBy over useUserSorts.     *)
(***************************************************************************)
VARIABLES sorts, saveArg, nSaves, orderByValue, orderByRead

sortVars == <<sorts, saveArg, nSaves, orderByValue, orderByRead>>

MaxSorts == 2

\* useUserSorts('Project') of the base table, useUserSorts('Workspace') of
\* the workspace table
Tables == {"Project", "Workspace"}

\* the sort {} and the sort { field, direction }
EmptySort == [field |-> Null, direction |-> Null]
UserSort(field, direction) == [field |-> field, direction |-> direction]

\* an object Record<string, SordDirectionType>, as its entries in insertion
\* order; a direction can be undefined
OrderByValues ==
  {<< >>,
   << <<"email", "asc">> >>,
   << <<"roles", Null>> >>,
   << <<"roles", "desc">>, <<"email", "asc">> >>,
   << <<"email", "desc">>, <<"roles", "asc">> >>}

\* useUserSorts: sortDirection, computed from the stored sort
sortDirection(sort) ==
  IF sort.field # Null THEN << <<sort.field, sort.direction>> >> ELSE << >>

\* useUserSorts: saveOrUpdate keeps a sort that has a field and a direction
\* and clears the stored sort otherwise
saveOrUpdate(newSortConfig) ==
  IF newSortConfig.field # Null /\ newSortConfig.direction # Null
    THEN newSortConfig
    ELSE EmptySort

\* a setter that would take the last entry of the object
SortOfValue_LastEntry(value) ==
  IF Len(value) = 0
    THEN EmptySort
    ELSE UserSort(value[Len(value)][1], value[Len(value)][2])

\* the setter of orderBy: the sort it hands to saveOrUpdateUserSort
SortOfValue(value) ==
  IF Len(value) = 0
    THEN EmptySort
    ELSE UserSort(value[1][1], value[1][2])

\* the setter of orderBy, the same code in both tables
orderBySet(table, value) ==
  /\ nSaves[table] < MaxSorts
  /\ orderByValue' = [orderByValue EXCEPT ![table] = value]
  /\ saveArg' = [saveArg EXCEPT ![table] = SortOfValue(value)]
  /\ nSaves' = [nSaves EXCEPT ![table] = @ + 1]
  /\ sorts' = [sorts EXCEPT ![table] = saveOrUpdate(SortOfValue(value))]
  /\ UNCHANGED orderByRead

\* the getter of orderBy, the same code in both tables
orderByGet(table) == sortDirection(sorts[table])

\* the table component writes and reads its v-model:order-by
OrderBySet(value) == orderBySet("Project", value)
WsOrderBySet(value) == orderBySet("Workspace", value)

\* orderBy has not been read yet
NotRead == << <<"not", "read">> >>

OrderByRead ==
  /\ orderByRead' = [orderByRead EXCEPT !["Project"] = orderByGet("Project")]
  /\ UNCHANGED <<sorts, saveArg, nSaves, orderByValue>>

WsOrderByRead ==
  /\ orderByRead' = [orderByRead EXCEPT !["Workspace"] = orderByGet("Workspace")]
  /\ UNCHANGED <<sorts, saveArg, nSaves, orderByValue>>

\* loadSorts on mount brings back the sort stored earlier, if any
InitSorts(storedChoices) ==
  /\ sorts \in [Tables -> storedChoices]
  /\ saveArg = [t \in Tables |-> EmptySort]
  /\ nSaves = [t \in Tables |-> 0]
  /\ orderByValue = [t \in Tables |-> << >>]
  /\ orderByRead = [t \in Tables |-> NotRead]

(***************************************************************************)
(* The specifications: each component on its own, the others at rest.      *)
(***************************************************************************)
vars == <<edVars, valVars, accVars, wsVars, sortVars>>

\* the roles an acting user can hold: none, one, or the keys of two
HeldChoices(ordered) ==
  {{}} \cup {{ordered[i]} : i \in 1 .. Len(ordered)} \cup {{ordered[3], ordered[5]}}

AccessAtRest ==
  InitAccess({{"editor"}}, {FALSE}, {FALSE},
             {[b \in Bases |-> [u \in Users |-> Null]]})

WorkspaceAtRest ==
  /\ InitWorkspace({{"workspace-level-creator"}}, {WorkspaceW1})
  /\ InitSorts({EmptySort})

\* the characters typed in the editor specification
EditorChars == {"f", "(", ")", DQ, SQ, BS, NL}
\* the characters typed in the function-scan specification
ScanChars == {"f", "(", ")", ",", DQ}

\* the formula texts of the function-scan specification
ScanTexts == UNION {[1 .. n -> ScanChars] : n \in 0 .. MaxScanLen}

\* the editor is created on an existing formula (monacoEditor.createModel of
\* formula_raw) with the cursor somewhere in it
InitScan ==
  /\ text \in ScanTexts
  /\ offset \in 0 .. Len(text)
  /\ suggestion = suggestionsList
  /\ autocomplete = FALSE
  /\ priority = 0
  /\ selected = 0
  /\ wordToComplete = << >>
  /\ showFunctionList = TRUE
  /\ lastFunction = << >>
  /\ suggestionPreviewed = << >>
  /\ debPending = FALSE
  /\ lastEvent = "none"

\* the cursor position event is delivered for the current position
CursorEvent ==
  /\ UNCHANGED <<text, offset, debPending>>
  /\ OnDidChangeCursorPosition(text, offset)

Init == InitEditor /\ InitValidator /\ AccessAtRest /\ WorkspaceAtRest

InitScanSpec == InitScan /\ InitValidator /\ AccessAtRest /\ WorkspaceAtRest

\* the base table for an acting user who is a commenter of the base
InitAccessSpec ==
  /\ InitEditor
  /\ InitValidator
  /\ InitAccess({{"commenter"}}, {FALSE}, BOOLEAN, SrvRoleChoices)
  /\ WorkspaceAtRest

\* the workspace roles of an acting user who holds in the workspace the roles
\* of the same rank as in the base
SameRank(held) ==
  {OrderedWorkspaceRoles[i] : i \in {j \in 1 .. Len(OrderedProjectRoles) :
                                       OrderedProjectRoles[j] \in held}}

\* the workspace table for every acting user and every current workspace
InitWorkspaceSpec ==
  /\ InitEditor
  /\ InitValidator
  /\ AccessAtRest
  /\ InitWorkspace(HeldChoices(OrderedWorkspaceRoles), Workspaces)
  /\ InitSorts({EmptySort})

\* the sort of both tables, with and without a sort stored earlier
InitSortsSpec ==
  /\ InitEditor
  /\ InitValidator
  /\ AccessAtRest
  /\ InitWorkspace({{"workspace-level-creator"}}, {WorkspaceW1})
  /\ InitSorts({EmptySort, UserSort("email", "asc")})

\* both tables for every acting user
InitSelectors ==
  /\ InitEditor
  /\ InitValidator
  /\ InitAccess(HeldChoices(OrderedProjectRoles), BOOLEAN, {TRUE}, SrvRoleChoices)
  /\ InitWorkspace({SameRank(baseRoles)}, {WorkspaceW1})
  /\ InitSorts({EmptySort})

TypeEditor == \E c \in EditorChars : InsertChar(c)
Move == \E o \in 0 .. Len(text) : MoveCursor(o)

editorOnly == <<valVars, accVars, wsVars, sortVars>>
validatorOnly == <<edVars, accVars, wsVars, sortVars>>
accessOnly == <<edVars, valVars, wsVars, sortVars>>
workspaceOnly == <<edVars, valVars, accVars, sortVars>>
sortsOnly == <<edVars, valVars, accVars, wsVars>>

NextEditor ==
  \/ TypeEditor /\ UNCHANGED editorOnly
  \/ DeleteChar /\ UNCHANGED editorOnly
  \/ Move /\ UNCHANGED editorOnly
  \/ HandleInputDeb /\ UNCHANGED editorOnly

NextScan == CursorEvent /\ UNCHANGED editorOnly

NextValidator ==
  \E f \in Formulas, sdk \in SdkOutcomes : Validate(f, sdk) /\ UNCHANGED validatorOnly

\* the table without role changes
NextLoads ==
  \/ Mount /\ UNCHANGED accessOnly
  \/ \E b \in Bases \cup {Null} : BaseChange(b) /\ UNCHANGED accessOnly
  \/ \E s \in SearchTexts : SetSearch(s) /\ UNCHANGED accessOnly
  \/ OpenInvite /\ UNCHANGED accessOnly
  \/ CloseInvite /\ UNCHANGED accessOnly
  \/ \E l \in loads : ServeLoad(l) /\ UNCHANGED accessOnly
  \/ \E l \in loads : DeliverLoad(l) /\ UNCHANGED accessOnly

\* the table with role changes
NextAccess ==
  \/ NextLoads
  \/ \E id \in Users, roles \in Range(OrderedProjectRoles) :
        UpdateStart(id, roles) /\ UNCHANGED accessOnly
  \/ \E op \in ops : BackendApply(op) /\ UNCHANGED accessOnly
  \/ \E op \in ops : UpdateResume(op) /\ UNCHANGED accessOnly

NextSelectors ==
  \/ Mount /\ UNCHANGED accessOnly
  \/ \E b \in Bases \cup {Null} : BaseChange(b) /\ UNCHANGED accessOnly
  \/ \E l \in loads : ServeLoad(l) /\ UNCHANGED accessOnly
  \/ \E l \in loads : DeliverLoad(l) /\ UNCHANGED accessOnly
  \/ \E id \in Users, roles \in Range(OrderedWorkspaceRoles) :
        WsUpdateStart(id, roles) /\ UNCHANGED workspaceOnly
  \/ \E op \in wsOps : WsBackendApply(op) /\ UNCHANGED workspaceOnly
  \/ \E op \in wsOps : WsUpdateResume(op) /\ UNCHANGED workspaceOnly

\* the updateCollaborator of the workspace table and the workspace store
NextWorkspace ==
  \/ \E id \in Users, roles \in Range(OrderedWorkspaceRoles) :
        WsUpdateStart(id, roles) /\ UNCHANGED workspaceOnly
  \/ \E op \in wsOps : WsBackendApply(op) /\ UNCHANGED workspaceOnly
  \/ \E op \in wsOps : WsUpdateResume(op) /\ UNCHANGED workspaceOnly

\* the sort of the two tables
NextSorts ==
  \/ \E value \in OrderByValues : OrderBySet(value) /\ UNCHANGED sortsOnly
  \/ \E value \in OrderByValues : WsOrderBySet(value) /\ UNCHANGED sortsOnly
  \/ OrderByRead /\ UNCHANGED sortsOnly
  \/ WsOrderByRead /\ UNCHANGED sortsOnly

\* the formula editor, typing quotes, escapes, parentheses and line breaks
SpecEditor == Init /\ [][NextEditor]_vars
\* the cursor handler applied to formula texts made of function calls
SpecScan == InitScanSpec /\ [][NextScan]_vars
\* the formula_raw validator
SpecValidator == Init /\ [][NextValidator]_vars
\* the base collaborator table and its backend
SpecAccess == InitAccessSpec /\ [][NextAccess]_vars
\* the loads of the base collaborator table
SpecLoads == InitAccessSpec /\ [][NextLoads]_vars
\* the role selectors of the two collaborator tables
SpecSelectors == InitSelectors /\ [][NextSelectors]_vars
\* the role changes of the workspace collaborator table
SpecWorkspace == InitWorkspaceSpec /\ [][NextWorkspace]_vars
\* the sort of the two collaborator tables
SpecSorts == InitSortsSpec /\ [][NextSorts]_vars

(***************************************************************************)
(* Properties of the formula editor.                                       *)
(***************************************************************************)
\* the number of backslashes that stand directly before index i
RECURSIVE BackslashRun(_, _)
BackslashRun(t, i) ==
  IF i > 0 /\ Char(t, i - 1) = BS THEN 1 + BackslashRun(t, i - 1) ELSE 0

\* the character at index i is escaped by a backslash
Escaped(t, i) == BackslashRun(t, i) % 2 = 1

\* the string literal that is open after the first n characters of t:
\* "none", "single" or "double" (a backslash escapes the character after it)
RECURSIVE OpenQuote(_, _)
OpenQuote(t, n) ==
  IF n = 0 THEN "none"
  ELSE LET prev == OpenQuote(t, n - 1)
           c == Char(t, n - 1)
       IN IF c \notin {SQ, DQ} \/ Escaped(t, n - 1) THEN prev
          ELSE IF prev = "none" THEN (IF c = SQ THEN "single" ELSE "double")
          ELSE IF prev = "single" THEN (IF c = SQ THEN "none" ELSE prev)
          ELSE (IF c = DQ THEN "none" ELSE prev)

\* "(" minus ")" over the cursor's line before the cursor, walking back from
\* the cursor to the line break
RECURSIVE ParenExcess(_, _)
ParenExcess(t, off) ==
  IF off = 0 \/ Char(t, off - 1) = NL THEN 0
  ELSE (IF Char(t, off - 1) = "(" THEN 1
        ELSE IF Char(t, off - 1) = ")" THEN -1 ELSE 0) + ParenExcess(t, off - 1)

\* C1: after an input or cursor event handled with the cursor inside a
\* single- or double-quoted string literal (a quote opened before the offset
\* and not closed, a backslash escaping the character after it), the
\* suggestion list is empty and autocomplete is false.
C1_NoSuggestionInsideString ==
  (lastEvent # "none" /\ OpenQuote(text, offset) # "none")
    => (suggestion = << >> /\ autocomplete = FALSE)

\* the debounced input handler ran with the cursor behind an escaped quote
\* inside a double-quoted string
C1_Witness ==
  /\ lastEvent = "input"
  /\ OpenQuote(text, offset) = "double"
  /\ \E i \in 1 .. (offset - 1) : Char(text, i) = DQ /\ Escaped(text, i)

\* C3: after handleInput has run with the cursor outside any string literal,
\* priority is -1 (Fields before Formulas) exactly when the cursor's line
\* before the cursor holds more "(" than ")", and 1 (Formulas before Fields)
\* otherwise; it is never left at 0.
C3_PriorityFollowsParens ==
  (lastEvent # "none" /\ OpenQuote(text, offset) = "none")
    => /\ priority = (IF ParenExcess(text, offset) > 0 THEN -1 ELSE 1)
       /\ (ParenExcess(text, offset) > 0) <=> (FieldsOrder < FormulasOrder)
       /\ (ParenExcess(text, offset) <= 0) <=> (FormulasOrder < FieldsOrder)

\* handleInput ran on a second line whose text before the cursor is closed,
\* while the first line left a parenthesis open
C3_Witness ==
  /\ lastEvent = "input"
  /\ OpenQuote(text, offset) = "none"
  /\ priority = 1
  /\ CountChar(Substring(text, 0, offset), "(") > CountChar(Substring(text, 0, offset), ")")

(***************************************************************************)
(* Properties of findEnclosingFunction.                                    *)
(***************************************************************************)
\* index q holds the "(" of a function call: a word stands directly before it
CallOpen(t, q) == q > 0 /\ q < Len(t) /\ Char(t, q) = "(" /\ IsWord(Char(t, q - 1))

\* the name of the call whose "(" is at q
CallName(t, q) == Substring(t, WordLeft(t, 0, q), q)

\* "(" minus ")" over t[from .. to)
RECURSIVE Depth(_, _, _)
Depth(t, from, to) ==
  IF to <= from THEN 0
  ELSE (IF Char(t, to - 1) = "(" THEN 1
        ELSE IF Char(t, to - 1) = ")" THEN -1 ELSE 0) + Depth(t, from, to - 1)

\* index r holds the ")" that closes the "(" at q
Closes(t, q, r) ==
  /\ r > q /\ r < Len(t) /\ Char(t, r) = ")"
  /\ Depth(t, q, r + 1) = 0
  /\ \A k \in (q + 1) .. r : Depth(t, q, k) > 0

\* the calls whose parentheses contain the offset: the cursor stands behind
\* the "(" and not behind the ")"
CallsAround(t, off) ==
  {q \in 0 .. Len(t) : CallOpen(t, q) /\ q < off
                          /\ \E r \in 0 .. Len(t) : Closes(t, q, r) /\ off <= r}

InnermostCall(t, off) ==
  CHOOSE q \in CallsAround(t, off) : \A p \in CallsAround(t, off) : p <= q

\* C2: on a text without string literals, when the cursor stands between the
\* parentheses of one or more function calls, findEnclosingFunction returns
\* the name of the innermost of them, whichever argument the cursor is in.
C2_InnermostCallReturned ==
  (lastEvent = "cursor" /\ CountChar(text, DQ) = 0 /\ CallsAround(text, offset) # {})
    => lastFunction = CallName(text, InnermostCall(text, offset))

\* index i lies inside a double-quoted string literal that is closed later
InsideDoubleQuotes(t, i) ==
  /\ CountChar(Substring(t, 0, i), DQ) % 2 = 1
  /\ CountChar(Substring(t, i, Len(t)), DQ) > 0

\* the function stack findEnclosingFunction has built when its loop ends
FunctionStack(t, off) == MatchLoop(t, off, 0, FALSE, 0, << >>).stack

\* C8: a function-call pattern that lies inside a double-quoted string
\* literal is never pushed on the function stack and never returned as the
\* enclosing function.
C8_QuotedCallNeverPushed ==
  lastEvent = "cursor"
    => /\ \A k \in 1 .. Len(FunctionStack(text, offset)) :
            ~InsideDoubleQuotes(text, FunctionStack(text, offset)[k].start)
       /\ (lastFunction # << >>
             => \E q \in 0 .. Len(text) :
                  /\ CallOpen(text, q) /\ CallName(text, q) = lastFunction
                  /\ ~InsideDoubleQuotes(text, q))

(***************************************************************************)
(* Properties of the formula_raw validator.                                *)
(***************************************************************************)
\* C4: the validator rejects with 'Required', without calling the SDK, when
\* the formula is missing, empty or made of white space only; otherwise it
\* calls the SDK and rejects exactly when the SDK throws (with the translated
\* message for a FormulaError that carries extra.key, else with the error's
\* own message) and accepts when the SDK returns.
C4_ValidityDecidedBySdk ==
  vCount > 0 =>
    IF vFormula.isNull \/ \A i \in 1 .. Len(vFormula.chars) : vFormula.chars[i] \in SpaceChars
    THEN /\ vResult = [status |-> "rejected", message |-> "Required"]
         /\ ~vSdkCalled
    ELSE /\ vSdkCalled
         /\ (vResult.status = "accepted") <=> (vSdk.kind = "returns")
         /\ (vResult.status = "rejected") <=> (vSdk.kind \in {"FormulaError", "Error"})
         /\ (vSdk.kind = "FormulaError" /\ vSdk.hasKey)
              => vResult.message = Translate(vSdk.key)
         /\ (vSdk.kind = "Error" \/ (vSdk.kind = "FormulaError" /\ ~vSdk.hasKey))
              => vResult.message = vSdk.message

\* a formula with white space around its text was rejected with the
\* translated message of a FormulaError
C4_Witness ==
  /\ vCount > 0
  /\ vFormula.chars = <<" ", "a", " ">>
  /\ vSdk.kind = "FormulaError" /\ vSdk.hasKey
  /\ vResult = [status |-> "rejected", message |-> Translate(vSdk.key)]

(***************************************************************************)
(* Properties of the collaborator tables.                                  *)
(***************************************************************************)
\* the entry of the local list for the user with this id, as the table
\* shows it
Entry(id) == FindCollaborator(collaborators, id)

\* C5: when the backend call of updateCollaborator has failed and the reload
\* started by the error handler has succeeded, the collaborator's roles and
\* base_roles in the local list equal their values before the failed call
\* (calls and loads made one after the other, none overlapping another).
C5_FailedCallRestoresValues ==
  (/\ ev.type = "loaded"
   /\ ev.load.cause = "error"
   /\ ~overlapped
   /\ HasCollaborator(collaborators, ev.load.forId))
    => /\ Entry(ev.load.forId).roles = ev.load.preRoles
       /\ Entry(ev.load.forId).base_roles = ev.load.preBaseRoles

\* C6: in a sequence of successful updateCollaborator calls, made one after
\* the other, createProjectUser is called only when base_roles is null,
\* updateProjectUser only when it is non-null and removeProjectUser only for
\* a collaborator whose base_roles is non-null; base_roles is null after a
\* removal and non-null after a create or an update.
C6_OperationFollowsMembership ==
  (~anyFailed /\ ~overlapped)
    => /\ ev.type = "updateStart"
            => /\ ev.op.branch = "create" => ev.op.preBaseRoles = Null
               /\ ev.op.branch = "update" => ev.op.preBaseRoles # Null
               /\ ev.op.branch = "remove" => ev.op.preBaseRoles # Null
       /\ (ev.type = "updateDone" /\ HasCollaborator(collaborators, ev.op.id))
            => /\ ev.op.branch = "remove" => Entry(ev.op.id).base_roles = Null
               /\ ev.op.branch \in {"create", "update"}
                    => Entry(ev.op.id).base_roles # Null

\* the place of a role in an ordered role list, 1 for the highest
PositionOf(ordered, r) == CHOOSE i \in 1 .. Len(ordered) : ordered[i] = r

\* every role of the list is strictly lower than every role held that is the
\* highest held
OnlyLowerThanOwn(ordered, held, accessible) ==
  \A r \in Range(accessible) :
    /\ r \in Range(ordered)
    /\ \E own \in held :
         /\ \A h \in held : PositionOf(ordered, own) <= PositionOf(ordered, h)
         /\ PositionOf(ordered, r) > PositionOf(ordered, own)

ExpectedRoles(user) ==
  CASE user.roles # Null -> user.roles
    [] user.roles = Null /\ user.workspace_roles # Null
         /\ WorkspaceRolesToProjectRoles(user.workspace_roles) # Null
         -> WorkspaceRolesToProjectRoles(user.workspace_roles)
    [] OTHER -> NO_ACCESS

\* the places of the returned users that are not marked deleted
Kept(users) == {i \in 1 .. Len(users) : ~users[i].deleted}

\* the place among the returned users of the k-th one that is kept
KeptAt(users, k) ==
  CHOOSE i \in Kept(users) : Cardinality({j \in Kept(users) : j <= i}) = k

\* C9: a successful loadCollaborators leaves in the local list exactly the
\* returned users that are not marked deleted, each with a non-null roles
\* value chosen by precedence (direct base role, else the project role mapped
\* from the workspace role, else NO_ACCESS) and with base_roles holding the
\* direct base role; without a current base, or when the request fails, the
\* list is left as it was.
C9_LoadResult ==
  [][/\ ev'.type = "loaded"
          => /\ Len(collaborators') = Cardinality(Kept(ev'.load.users))
             /\ \A k \in 1 .. Len(collaborators') :
                  LET user == ev'.load.users[KeptAt(ev'.load.users, k)]
                  IN /\ collaborators'[k].id = user.id
                     /\ collaborators'[k].roles = ExpectedRoles(user)
                     /\ collaborators'[k].roles # Null
                     /\ collaborators'[k].base_roles = user.roles
     /\ ev'.type \in {"loadFailed", "loadSkipped"}
          => collaborators' = collaborators]_vars

\* a load has returned a deleted user, a user with a direct role and a user
\* whose role comes from the workspace role
C9_Witness ==
  /\ ev.type = "loaded"
  /\ Len(ev.load.users) > Len(collaborators)
  /\ \E i, j \in 1 .. Len(collaborators) :
       /\ collaborators[i].base_roles # Null
       /\ collaborators[j].base_roles = Null
       /\ collaborators[j].roles = "viewer"

\* C10: whenever the table shows the current base, the search text is empty
\* and no load is in flight, the displayed collaborators are all the users of
\* the current base that are not deleted.
C10_EmptySearchShowsAll ==
  (/\ mountPhase = "mounted"
   /\ currentBase # Null
   /\ listBase = currentBase
   /\ userSearchText = << >>
   /\ loads = {})
    => {filteredCollaborators[i].id : i \in 1 .. Len(filteredCollaborators)}
         = {u \in Users : ~Deleted(u)}

\* C11: overlapping loadCollaborators calls are not coordinated. Whenever an
\* answer has just been taken, the list holds the users of that answer in
\* the answer's order and the total is the answer's totalRows, whether or not
\* a later request has been issued or already answered: the answer that
\* arrives last decides both.
C11_LastArrivalWins ==
  ev.type = "loaded" =>
    /\ totalCollaborators = ev.load.totalRows
    /\ Len(collaborators) = Cardinality(Kept(ev.load.users))
    /\ \A k \in 1 .. Len(collaborators) :
         collaborators[k].id = ev.load.users[KeptAt(ev.load.users, k)].id

\* two loads were in flight together, the second request was answered first,
\* and the answer of the first request (sent with the search text "a", since
\* withdrawn) has arrived last and decided the list
C11_Witness ==
  /\ ev.type = "loaded"
  /\ overlapped
  /\ nLoads = 2
  /\ loads = {}
  /\ ev.load.n = 1
  /\ ev.load.search = <<"a">>
  /\ userSearchText = << >>
  /\ totalCollaborators = ev.load.totalRows
  /\ Len(collaborators) = 1
  /\ collaborators[1].id = "u1"

\* the local list with the role of the collaborator id set to roles
WithRole(list, id, roles) ==
  [i \in 1 .. Len(list) |->
     [id |-> list[i].id,
      roles |-> IF list[i].id = id THEN roles ELSE list[i].roles]]

\* C12: in the workspace table a step shows the success message exactly when
\* it ends an updateCollaborator call whose backend update has been made, and
\* only such a step touches the local list, giving the collaborator the
\* requested role; a step that ends a call whose backend update has failed
\* shows an error and leaves the list as it was, and a call made without a
\* current workspace that has an id starts no request, shows nothing and
\* leaves the list as it was.
C12_RoleChangedAfterBackend ==
  [][LET ended == {op \in wsOps : \A o \in wsOps' : o.n # op.n}
         shown == SubSeq(wsMessages', Len(wsMessages) + 1, Len(wsMessages'))
     IN /\ SubSeq(wsMessages', 1, Len(wsMessages)) = wsMessages
        /\ (wsCollaborators' # wsCollaborators \/ "success" \in Range(shown))
             => \E op \in ended :
                  /\ op.phase = "applied"
                  /\ shown = <<"success">>
                  /\ wsCollaborators' = WithRole(wsCollaborators, op.id, op.roles)
        /\ \A op \in ended :
             op.phase = "applied"
               => /\ shown = <<"success">>
                  /\ wsCollaborators' = WithRole(wsCollaborators, op.id, op.roles)
        /\ \A op \in ended :
             op.phase # "applied"
               => /\ shown = <<"error">>
                  /\ wsCollaborators' = wsCollaborators
        /\ (nWsCalls' # nWsCalls
               /\ (~currentWorkspace.exists \/ currentWorkspace.id = Null))
             => /\ wsOps' = wsOps
                /\ shown = << >>
                /\ wsCollaborators' = wsCollaborators]_vars

\* a call has ended after the backend made the change: the success message
\* is shown and u1 has moved from editor to viewer
C12_Witness ==
  /\ currentWorkspace = WorkspaceW1
  /\ nWsCalls = 1
  /\ wsOps = {}
  /\ wsMessages = <<"success">>
  /\ FindCollaborator(wsCollaborators, "u1").roles = "workspace-level-viewer"
  /\ FindCollaborator(wsCollaborators, "u2").roles = "workspace-level-viewer"

\* C13: in both tables a write of orderBy hands saveOrUpdateUserSort one
\* sort: the empty sort for an empty object, which clears the stored sort,
\* and otherwise the sort made of the first entry's field and direction; a
\* read of orderBy returns the sortDirection of the stored sort.
C13_OrderBySavesFirstEntry ==
  [][\A t \in Tables :
       /\ nSaves'[t] # nSaves[t]
            => LET value == orderByValue'[t]
               IN /\ nSaves'[t] = nSaves[t] + 1
                  /\ Len(value) = 0
                       => /\ saveArg'[t] = EmptySort
                          /\ sorts'[t] = EmptySort
                  /\ Len(value) > 0
                       => /\ saveArg'[t].field = value[1][1]
                          /\ saveArg'[t].direction = value[1][2]
       /\ orderByRead'[t] # orderByRead[t]
            => /\ orderByRead'[t] = sortDirection(sorts[t])
               /\ sorts[t] = EmptySort => orderByRead'[t] = << >>
               /\ sorts[t] # EmptySort
                    => orderByRead'[t] = << <<sorts[t].field, sorts[t].direction>> >>]_vars

\* the base table has been given an object of two entries and has saved and
\* read back its first one; the workspace table has been given the empty
\* object, which cleared the sort stored earlier
C13_Witness ==
  /\ orderByValue["Project"] = << <<"roles", "desc">>, <<"email", "asc">> >>
  /\ saveArg["Project"] = UserSort("roles", "desc")
  /\ orderByRead["Project"] = << <<"roles", "desc">> >>
  /\ nSaves["Workspace"] > 0
  /\ orderByValue["Workspace"] = << >>
  /\ sorts["Workspace"] = EmptySort
  /\ orderByRead["Workspace"] = << >>

====
